---- MODULE Spec2Model ----
(***************************************************************************)
(* A model of peon: the binary path codec (src/src/path.rs), the           *)
(* prefix-compressed entry stream codec (src/src/encoding.rs), the         *)
(* flatten / merge pair (src/src/json/flatten.rs, src/src/json/merge.rs)   *)
(* and the JSON-path matcher (src/src/json_path/filter.rs).                *)
(*                                                                         *)
(* Bytes are the integers 0..255 and byte strings are sequences of them.   *)
(* A u64 is kept as its 8 big-endian bytes, since the model's integers are *)
(* narrower than 64 bits.                                                  *)
(***************************************************************************)
EXTENDS Integers, Sequences, FiniteSets, TLC

VARIABLES
    \* common_prefix, applied to drawn inputs
    cp_in, cp_out,
    \* PrefixEncoder / PrefixDecoder over one in-memory stream
    enc_last_key, wire, log, last_write, phase,
    rd_pos, dec_last_key, dec_last_value, results,
    \* two PathBufs under construction (the segments pushed, the bytes held)
    \* and a PathIter over the first one's bytes
    pa, pa_buf, pb, pb_buf, it_pos, it_items,
    \* a document, the build and chunk size it is flattened with, what
    \* flatten left and what merging those entries gave
    j_build, j_chunk_size, j_doc, j_flat, j_acc, j_phase, j_kept,
    \* a query's tokens, a path's segments, further segments, and what
    \* is_match said of the path and of the extended path
    m_query, m_path, m_ext, m_out

cpVars == <<cp_in, cp_out>>
streamVars == <<enc_last_key, wire, log, last_write, phase,
                rd_pos, dec_last_key, dec_last_value, results>>
pathVars == <<pa, pa_buf, pb, pb_buf, it_pos, it_items>>
jsonVars == <<j_build, j_chunk_size, j_doc, j_flat, j_acc, j_phase, j_kept>>
matchVars == <<m_query, m_path, m_ext, m_out>>
vars == <<cpVars, streamVars, pathVars, jsonVars, matchVars>>

(***************************************************************************)
(* Bounds of the model.                                                    *)
(***************************************************************************)
\* full chunks of width N an input of common_prefix may hold
MaxChunks == 2
\* bytes an input of common_prefix may hold past its last full chunk
MaxTail == 2
\* records (normal or extension) written to one stream
MaxRecords == 3
\* segments pushed to the PathBuf that is iterated
MaxSegs == 3
\* segments pushed to each of two PathBufs whose bytes are compared
MaxOrderSegs == 2
\* items an array of a flattened document may hold
MaxArrayLen == 2
\* bytes of a record that reach the stream when the sink writes it in part
MaxPartial == 7
\* tokens a query handed to is_match may hold
MaxTokens == 3
\* segments of a path handed to is_match
MaxMatchSegs == 2
\* further segments appended to a path handed to is_match
MaxExtSegs == 1
\* entries of a flattened document handed to a filter
MaxFiltered == 4
\* offset of a continuation entry merged on its own
MaxOffset == 6
\* bytes of a path given to the iterator as a slice
MaxRawLen == 5
\* body bytes after a header that no encoder wrote
MaxRawBody == 2

(***************************************************************************)
(* Bytes and fixed-width integers.                                         *)
(***************************************************************************)
Min(a, b) == IF a <= b THEN a ELSE b

\* v[from..] of a Rust slice, 0-based `from`
Suffix(s, from) == SubSeq(s, from + 1, Len(s))

\* v[..to] of a Rust slice
Prefix(s, to) == SubSeq(s, 1, to)

\* n bytes, all b
Fill(n, b) == [i \in 1..n |-> b]

\* u16::to_be_bytes
U16BE(n) == <<n \div 256, n % 256>>

\* u16::from_be_bytes
FromU16BE(hi, lo) == hi * 256 + lo

\* usize as u16
AsU16(n) == n % 65536

RECURSIVE BitAnd(_, _)
\* a & b on naturals
BitAnd(a, b) ==
    IF a = 0 \/ b = 0 THEN 0
    ELSE (a % 2) * (b % 2) + 2 * BitAnd(a \div 2, b \div 2)

(***************************************************************************)
(* encoding.rs: constants.                                                 *)
(***************************************************************************)
\* The hexadecimal digits of MAX_PATH_LEN as the source writes it:
\* 0x0111_1111_1111_1111 (a 64-bit value, most significant digit first).
MAX_PATH_LEN_DIGITS == <<0, 1, 1, 1, 1, 1, 1, 1, 1, 1, 1, 1, 1, 1, 1, 1>>

\* The low 16 bits of MAX_PATH_LEN: all that `x & MAX_PATH_LEN` keeps of a
\* value x below 2^16.
MAX_PATH_LEN_LOW16 ==
    MAX_PATH_LEN_DIGITS[13] * 4096 + MAX_PATH_LEN_DIGITS[14] * 256
        + MAX_PATH_LEN_DIGITS[15] * 16 + MAX_PATH_LEN_DIGITS[16]

\* n <= MAX_PATH_LEN for a length n below 2^16
LeMaxPathLen(n) ==
    \/ \E i \in 1..12 : MAX_PATH_LEN_DIGITS[i] # 0
    \/ n <= MAX_PATH_LEN_LOW16

EXT_ENTRY == 128

\* 32 KiB, the greatest length of a path ("Maximum allowed length of a path
\* is 32KiB")
PATH_LIMIT == 32768

\* the chunk width common_prefix passes to common_prefix_chunked
CHUNK_N == 128

(***************************************************************************)
(* encoding.rs: common_prefix.                                             *)
(***************************************************************************)
\* zip(xs.chunks_exact(N), ys.chunks_exact(N)).take_while(|(x, y)| x == y)
\*     .count(), counted from chunk k on: the first chunk that differs, or
\* the number of chunks of the shorter side
EqualChunks(N, xs, ys, k) ==
    LET n == Min(Len(xs) \div N, Len(ys) \div N)
        differ == {j \in k..(n - 1) :
                      SubSeq(xs, j * N + 1, j * N + N)
                          # SubSeq(ys, j * N + 1, j * N + N)}
    IN  IF differ # {} THEN CHOOSE j \in differ : \A l \in differ : j <= l
        ELSE IF n > k THEN n ELSE k

\* zip(xs, ys).take_while(|(x, y)| x == y).count(), counted from byte i on:
\* the first byte that differs, or the length of the shorter side
EqualBytes(xs, ys, i) ==
    LET n == Min(Len(xs), Len(ys))
        differ == {j \in i..(n - 1) : xs[j + 1] # ys[j + 1]}
    IN  IF differ # {} THEN CHOOSE j \in differ : \A l \in differ : j <= l
        ELSE IF n > i THEN n ELSE i

\* A chunked prefix search that never looks at bytes past the equal chunks.
common_prefix_chunked_NoTail(N, xs, ys) == EqualChunks(N, xs, ys, 0) * N

common_prefix_chunked(N, xs, ys) ==
    LET off == EqualChunks(N, xs, ys, 0) * N
    IN  off + EqualBytes(Suffix(xs, off), Suffix(ys, off), 0)

common_prefix(xs, ys) == common_prefix_chunked(CHUNK_N, xs, ys)

(***************************************************************************)
(* Inputs of common_prefix: byte strings of 'a' (97) with at most one 'b'  *)
(* (98), of lengths around the multiples of the chunk width.               *)
(***************************************************************************)
CpLens ==
    (0..MaxTail) \cup
    { c * CHUNK_N + d : c \in 1..MaxChunks, d \in (0 - 1)..MaxTail }

\* 0: no 'b' at all
CpMarks == {0} \cup { l \in CpLens : l > 0 } \cup {CHUNK_N \div 2}

CpGen(len, mark) == [i \in 1..len |-> IF i = mark THEN 98 ELSE 97]

CpXs == CpGen(cp_in.lx, cp_in.mx)
CpYs == CpGen(cp_in.ly, cp_in.my)

CpInit ==
    /\ cp_in \in [lx : CpLens, mx : CpMarks, ly : CpLens, my : CpMarks]
    /\ cp_in.mx <= cp_in.lx
    /\ cp_in.my <= cp_in.ly
    /\ cp_out = -1

CpIdle ==
    /\ cp_in = [lx |-> 0, mx |-> 0, ly |-> 0, my |-> 0]
    /\ cp_out = -1

\* one call of common_prefix on the drawn inputs
CommonPrefixCall ==
    /\ cp_out = -1
    /\ cp_out' = common_prefix(CpXs, CpYs)
    /\ UNCHANGED <<cp_in, streamVars, pathVars, jsonVars, matchVars>>

(***************************************************************************)
(* u64 values, kept as 8 big-endian bytes (u64::to_be_bytes).              *)
(***************************************************************************)
\* the u64 of a natural below 2^31
U64(n) ==
    <<0, 0, 0, 0,
      (n \div 16777216) % 256, (n \div 65536) % 256, (n \div 256) % 256, n % 256>>

Zero64 == U64(0)

\* u64::from_be_bytes of a buffer whose last Len(payload) bytes are payload
U64FromPayload(payload) == Fill(8 - Len(payload), 0) \o payload

\* byte-lexicographic a < b (Ord for [u8]); on two u64 values, n < m
SeqLess(a, b) ==
    \/ Len(a) < Len(b) /\ a = SubSeq(b, 1, Len(a))
    \/ \E i \in 1..Min(Len(a), Len(b)) :
        a[i] < b[i] /\ SubSeq(a, 1, i - 1) = SubSeq(b, 1, i - 1)

(***************************************************************************)
(* path.rs: segments and the path builder.                                 *)
(***************************************************************************)
TAG_KEY == 0
TAG_INDEX == 1
TAG_CHUNK == 2
MAX_INDEX_BYTES == 8
\* the tag push_continued appends
TAG_CONT == 15

NoSeg == [t |-> "None", s |-> <<>>, n |-> Zero64]
Key(s) == [t |-> "Key", s |-> s, n |-> Zero64]
Index(n) == [t |-> "Index", s |-> <<>>, n |-> n]
Cont == [t |-> "Cont", s |-> <<>>, n |-> Zero64]

\* the bytes write_len_prefixed_varint appends for a u64
write_len_prefixed_varint(value) ==
    IF value = Zero64 THEN <<0>>
    ELSE IF Prefix(value, 7) = Fill(7, 0) THEN <<1>> \o Suffix(value, 7)
    ELSE IF Prefix(value, 6) = Fill(6, 0) THEN <<2>> \o Suffix(value, 6)
    ELSE IF Prefix(value, 4) = Fill(4, 0) THEN <<4>> \o Suffix(value, 4)
    ELSE <<8>> \o value

\* the buffer after PathBuf::push_key
push_key(buf, key) == buf \o <<TAG_KEY>> \o key

\* the buffer after PathBuf::push_index
push_index(buf, index) == buf \o write_len_prefixed_varint(index)

\* the buffer after PathBuf::push_chunk
push_chunk(buf, start, len) ==
    buf \o <<TAG_CHUNK>> \o write_len_prefixed_varint(start) \o U16BE(len)

\* the buffer after push_continued
push_continued(buf) == buf \o <<TAG_CONT>>

\* the buffer after pushing one segment
push_segment(buf, seg) ==
    CASE seg.t = "Key" -> push_key(buf, seg.s)
      [] seg.t = "Index" -> push_index(buf, seg.n)
      [] OTHER -> push_continued(buf)

RECURSIVE from_iter_from(_, _)
from_iter_from(buf, segs) ==
    IF segs = <<>> THEN buf
    ELSE from_iter_from(push_segment(buf, Head(segs)), Tail(segs))

\* PathBuf::from_iter: the encoded bytes of a segment sequence
from_iter(segs) == from_iter_from(<<>>, segs)

(***************************************************************************)
(* path.rs: PathIter.                                                      *)
(***************************************************************************)
IsCont(b) == b \in 128..191

RECURSIVE Utf8Valid(_)
\* std::str::from_utf8(bytes).is_ok()
Utf8Valid(bs) ==
    IF bs = <<>> THEN TRUE
    ELSE LET b == bs[1]
             n == Len(bs)
         IN  IF b <= 127 THEN Utf8Valid(Tail(bs))
             ELSE IF b \in 194..223
             THEN n >= 2 /\ IsCont(bs[2]) /\ Utf8Valid(Suffix(bs, 2))
             ELSE IF b \in 224..239
             THEN /\ n >= 3
                  /\ IF b = 224 THEN bs[2] \in 160..191
                     ELSE IF b = 237 THEN bs[2] \in 128..159
                     ELSE IsCont(bs[2])
                  /\ IsCont(bs[3])
                  /\ Utf8Valid(Suffix(bs, 3))
             ELSE IF b \in 240..244
             THEN /\ n >= 4
                  /\ IF b = 240 THEN bs[2] \in 144..191
                     ELSE IF b = 244 THEN bs[2] \in 128..143
                     ELSE IsCont(bs[2])
                  /\ IsCont(bs[3])
                  /\ IsCont(bs[4])
                  /\ Utf8Valid(Suffix(bs, 4))
             ELSE FALSE

\* what one call of PathIter::next yields
Item(res, seg) == [res |-> res, seg |-> seg]

RECURSIVE KeyEnd(_, _)
\* the loop of consume_key: the position after the key's bytes
KeyEnd(buf, pos) ==
    IF pos < Len(buf) /\ buf[pos + 1] > MAX_INDEX_BYTES
    THEN KeyEnd(buf, pos + 1)
    ELSE pos

\* PathIter::consume_key from position pos
consume_key(buf, pos) ==
    LET end == KeyEnd(buf, pos)
        key_bytes == SubSeq(buf, pos + 1, end)
    IN  [pos |-> end,
         item |-> IF Utf8Valid(key_bytes) THEN Item("Ok", Key(key_bytes))
                  ELSE Item("InvalidKey", NoSeg)]

\* PathIter::consume_index from position pos
consume_index(buf, pos, byte_len) ==
    IF pos + byte_len >= Len(buf)
    THEN [pos |-> pos, item |-> Item("Eof", NoSeg)]
    ELSE [pos |-> pos + byte_len,
          item |-> Item("Ok", Index(U64FromPayload(
                       SubSeq(buf, pos + 1, pos + byte_len))))]

\* PathIter::next at position pos < buf.len(): the new position and the
\* item. The arms are tried in the order the source writes them; the arm of
\* TAG_CHUNK has an empty body and decodes nothing ("Unit").
iter_next(buf, pos) ==
    LET tag == buf[pos + 1]
    IN  IF tag = TAG_KEY THEN consume_key(buf, pos + 1)
        ELSE IF tag = TAG_CHUNK
        THEN [pos |-> pos + 1, item |-> Item("Unit", NoSeg)]
        ELSE IF tag <= MAX_INDEX_BYTES THEN consume_index(buf, pos + 1, tag)
        ELSE [pos |-> pos + 1, item |-> Item("UnknownTag", NoSeg)]

\* PathIter::next as merge.rs uses it: with an arm for the continuation tag,
\* which yields PathSegment::Cont (the PathSegment of path.rs has no such
\* variant; this arm follows the format's table of tags)
iter_next_cont(buf, pos) ==
    IF buf[pos + 1] = TAG_CONT
    THEN [pos |-> pos + 1, item |-> Item("Ok", Cont)]
    ELSE iter_next(buf, pos)

RECURSIVE iter_collect(_, _)
\* path.iter(): every item the iterator yields until it returns None
iter_collect(buf, pos) ==
    IF pos >= Len(buf) THEN <<>>
    ELSE LET r == iter_next_cont(buf, pos)
         IN  <<r.item>> \o iter_collect(buf, r.pos)

(***************************************************************************)
(* encoding.rs: PrefixEncoder.                                             *)
(***************************************************************************)
\* the 6 header bytes: key_len, value_len, prefix_len as big-endian u16
Header(key_len, value_len, prefix_len) ==
    U16BE(AsU16(key_len)) \o U16BE(AsU16(value_len)) \o U16BE(AsU16(prefix_len))

\* the two debug_assert! of write_next
WriteNextAsserts(key, value) ==
    /\ LeMaxPathLen(Len(key))
    /\ Len(value) <= 65535

\* An encoder that never finds a shared prefix longer than one byte.
write_next_ShortPrefix(last_key, key, value) ==
    LET prefix_len == Min(1, common_prefix(last_key, key))
        diff == Suffix(key, prefix_len)
    IN  [bytes |-> Header(Len(key), Len(value), prefix_len) \o diff \o value,
         last_key |-> Prefix(last_key, prefix_len) \o diff]

\* PrefixEncoder::write_next: the bytes written and the new last_key
write_next(last_key, key, value) ==
    LET prefix_len == common_prefix(last_key, key)
        diff == Suffix(key, prefix_len)
    IN  [bytes |-> Header(Len(key), Len(value), prefix_len) \o diff \o value,
         last_key |-> Prefix(last_key, prefix_len) \o diff]

(***************************************************************************)
(* encoding.rs: PrefixDecoder, reading from a Cursor over the bytes w.     *)
(* A read_exact that finds too few bytes fails with UnexpectedEof, leaves  *)
(* its buffer as it was and moves the cursor to the end.                   *)
(***************************************************************************)
ResNone == [tag |-> "None", key |-> <<>>, value |-> <<>>]
ResSome(k, v) == [tag |-> "Some", key |-> k, value |-> v]
ResErr(kind) == [tag |-> kind, key |-> <<>>, value |-> <<>>]

\* Vec::resize(n, 0)
Resize(v, n) == IF n <= Len(v) THEN Prefix(v, n) ELSE v \o Fill(n - Len(v), 0)

\* the bytes left in the cursor
Remaining(w, pos) == Len(w) - pos

\* the length read_next skips for an optional extension record
skip_len(key_len, value_len) == BitAnd(key_len, MAX_PATH_LEN_LOW16) + value_len

\* header_buf[0] & EXT_ENTRY != 0
IsExtension(b0) == BitAnd(b0, EXT_ENTRY) # 0

\* A decoder that takes a mandatory extension record for an optional one.
IsOptional_Always(b4) == TRUE

\* header_buf[4] & EXT_ENTRY != 0
IsOptional(b4) == BitAnd(b4, EXT_ENTRY) # 0

\* A decoder that forgets the shared prefix: it reads the key tail to the
\* front of last_key.
read_key_NoPrefix(w, pos, last_key, key_len, prefix_len) ==
    SubSeq(w, pos + 1, pos + (key_len - prefix_len))
        \o Suffix(Resize(last_key, key_len), key_len - prefix_len)

\* A decoder whose last_key is cleared before it is resized: the shared
\* prefix of the key is lost.
read_key_ClearedPrefix(w, pos, last_key, key_len, prefix_len) ==
    Fill(prefix_len, 0) \o SubSeq(w, pos + 1, pos + (key_len - prefix_len))

\* last_key after resize(key_len, 0) and read_exact(&mut last_key[prefix_len..])
read_key(w, pos, last_key, key_len, prefix_len) ==
    Prefix(Resize(last_key, key_len), prefix_len)
        \o SubSeq(w, pos + 1, pos + (key_len - prefix_len))

RECURSIVE read_next(_, _)
\* PrefixDecoder::read_next on the decoder state d = [pos, last_key,
\* last_value]: the state after the call and its result
read_next(w, d) ==
    IF Remaining(w, d.pos) < 6
    THEN \* read_exact of the header fails with UnexpectedEof: Ok(None)
         [pos |-> Len(w), last_key |-> d.last_key, last_value |-> d.last_value,
          res |-> ResNone]
    ELSE
    LET h == SubSeq(w, d.pos + 1, d.pos + 6)
        key_len == FromU16BE(h[1], h[2])
        value_len == FromU16BE(h[3], h[4])
        prefix_len == FromU16BE(h[5], h[6])
        pos1 == d.pos + 6
    IN  IF IsExtension(h[1])
        THEN IF IsOptional(h[5])
             THEN LET n == skip_len(key_len, value_len)
                  IN  IF Remaining(w, pos1) < n
                      THEN \* skip's read_exact fails; `?` returns the error
                           [pos |-> Len(w), last_key |-> d.last_key,
                            last_value |-> d.last_value,
                            res |-> ResErr("UnexpectedEof")]
                      ELSE read_next(w, [d EXCEPT !.pos = pos1 + n])
             ELSE [pos |-> pos1, last_key |-> d.last_key,
                   last_value |-> d.last_value, res |-> ResErr("Unsupported")]
        ELSE IF prefix_len > key_len
        THEN \* &mut self.last_key[prefix_len..] is out of range: a panic
             [pos |-> pos1, last_key |-> Resize(d.last_key, key_len),
              last_value |-> d.last_value, res |-> ResErr("Panic")]
        ELSE IF Remaining(w, pos1) < key_len - prefix_len
        THEN [pos |-> Len(w), last_key |-> Resize(d.last_key, key_len),
              last_value |-> d.last_value, res |-> ResErr("UnexpectedEof")]
        ELSE
        LET key == read_key(w, pos1, d.last_key, key_len, prefix_len)
            pos2 == pos1 + (key_len - prefix_len)
        IN  IF Remaining(w, pos2) < value_len
            THEN \* last_value was set_len(value_len) and not filled: its
                 \* bytes are not read again after the error
                 [pos |-> Len(w), last_key |-> key, last_value |-> <<>>,
                  res |-> ResErr("UnexpectedEof")]
            ELSE LET value == SubSeq(w, pos2 + 1, pos2 + value_len)
                 IN  [pos |-> pos2 + value_len, last_key |-> key,
                      last_value |-> value, res |-> ResSome(key, value)]

NewDecoder == [pos |-> 0, last_key |-> <<>>, last_value |-> <<>>]

RECURSIVE DecodeFrom(_, _)
\* the results of calling read_next until it returns None or an error
\* (`while let Some(..) = decoder.read_next().unwrap()`)
DecodeFrom(w, d) ==
    LET r == read_next(w, d)
    IN  IF r.res.tag = "Some"
        THEN <<r.res>> \o DecodeFrom(w, [pos |-> r.pos, last_key |-> r.last_key,
                                         last_value |-> r.last_value])
        ELSE <<r.res>>

DecodeAll(w) == DecodeFrom(w, NewDecoder)

(***************************************************************************)
(* The stream: an encoder writing into a Vec<u8>, extension records        *)
(* written straight to the encoder's writer (as the tests of encoding.rs   *)
(* do), then a decoder reading the bytes back until None or an error.      *)
(***************************************************************************)
KUsers == <<117, 115, 101, 114, 115>>
KName == <<110, 97, 109, 101>>
KLong == Fill(CHUNK_N + 2, 97)

\* keys given to write_next: encoded paths, the empty path among them
StreamKeys ==
    { <<>>,
      from_iter(<<Key(KUsers), Index(U64(1)), Key(KName)>>),
      from_iter(<<Key(KUsers), Index(U64(300)), Key(KName)>>),
      from_iter(<<Key(KLong), Index(U64(1))>>),
      from_iter(<<Key(KLong), Index(U64(2))>>) }

\* values given to write_next: empty, a one-byte tag, a tagged string
StreamValues == { <<>>, <<130, 65, 66>> }

\* extension records: the low 15 bits of key_len, value_len, and the low 15
\* bits of prefix_len (the first is the record of the tests)
ExtShapes == { <<0, 2, 0>>, <<2, 1, 123>> }

LogEntry(kind, key, value) == [kind |-> kind, key |-> key, value |-> value]

\* what the last call of write_next was given and wrote
WriteCall(last_key, key, value, bytes) ==
    [called |-> TRUE, last_key |-> last_key, key |-> key, value |-> value,
     bytes |-> bytes]

NoWriteCall ==
    [called |-> FALSE, last_key |-> <<>>, key |-> <<>>, value |-> <<>>,
     bytes |-> <<>>]

StreamInit ==
    /\ enc_last_key = <<>>
    /\ wire = <<>>
    /\ log = <<>>
    /\ last_write = NoWriteCall
    /\ phase = "write"
    /\ rd_pos = 0
    /\ dec_last_key = <<>>
    /\ dec_last_value = <<>>
    /\ results = <<>>

\* encoder.write_next(key, value)
WriteNext ==
    /\ phase = "write"
    /\ Len(log) < MaxRecords
    /\ \E key \in StreamKeys, value \in StreamValues :
        /\ WriteNextAsserts(key, value)
        /\ LET r == write_next(enc_last_key, key, value)
           IN  /\ wire' = wire \o r.bytes
               /\ enc_last_key' = r.last_key
               /\ log' = Append(log, LogEntry("rec", key, value))
               /\ last_write' = WriteCall(enc_last_key, key, value, r.bytes)
    /\ UNCHANGED <<phase, rd_pos, dec_last_key, dec_last_value, results, cpVars,
                   pathVars, jsonVars, matchVars>>

\* encoder.writer.write_all(&unknown_entry): an extension record whose body
\* is (key_len & 0x7FFF) + value_len bytes long, optional or mandatory
WriteExtension ==
    /\ phase = "write"
    /\ Len(log) < MaxRecords
    /\ \E shape \in ExtShapes, optional \in BOOLEAN :
        LET kl == shape[1]
            vl == shape[2]
            pl == shape[3]
            hdr == Header(32768 + kl, vl, IF optional THEN 32768 + pl ELSE pl)
            body == [i \in 1..(kl + vl) |-> IF i % 2 = 1 THEN 123 ELSE 100]
        IN  /\ wire' = wire \o hdr \o body
            /\ log' = Append(log, LogEntry(IF optional THEN "optional"
                                                       ELSE "mandatory",
                                           hdr, body))
    /\ UNCHANGED <<enc_last_key, last_write, phase, rd_pos, dec_last_key,
                   dec_last_value, results, cpVars, pathVars,
                   jsonVars, matchVars>>

\* a key of 0x8000 bytes, one more than a path may have
LongKeys == { Fill(PATH_LIMIT, 97) }

\* encoder.write_next(key, value) with a key longer than 0x7FFF bytes; the
\* debug_assert! guard the call as they do in WriteNext
WriteLong ==
    /\ phase = "write"
    /\ Len(log) < MaxRecords
    /\ \E key \in LongKeys, value \in StreamValues :
        /\ WriteNextAsserts(key, value)
        /\ LET r == write_next(enc_last_key, key, value)
           IN  /\ wire' = wire \o r.bytes
               /\ enc_last_key' = r.last_key
               /\ log' = Append(log, LogEntry("rec", key, value))
               /\ last_write' = WriteCall(enc_last_key, key, value, r.bytes)
    /\ UNCHANGED <<phase, rd_pos, dec_last_key, dec_last_value, results, cpVars,
                   pathVars, jsonVars, matchVars>>

\* encoder.write_next(key, value) on a sink that takes only the first kept
\* bytes of the record (a partial write); nothing is written after it
WritePartial ==
    /\ phase = "write"
    /\ Len(log) < MaxRecords
    /\ \E key \in StreamKeys, value \in StreamValues :
        /\ WriteNextAsserts(key, value)
        /\ LET r == write_next(enc_last_key, key, value)
           IN  \E kept \in 1..Min(MaxPartial, Len(r.bytes) - 1) :
                   /\ wire' = wire \o Prefix(r.bytes, kept)
                   /\ enc_last_key' = r.last_key
                   /\ log' = Append(log, LogEntry("partial", key, value))
                   /\ last_write' =
                          WriteCall(enc_last_key, key, value, Prefix(r.bytes, kept))
    /\ phase' = "cut"
    /\ UNCHANGED <<rd_pos, dec_last_key, dec_last_value, results, cpVars,
                   pathVars, jsonVars, matchVars>>

\* headers no encoder wrote: key_len, value_len and prefix_len of a normal
\* record, prefix_len up to one more than key_len
RawHeaders == {<<kl, vl, pl>> : kl \in 0..1, vl \in 0..1, pl \in 0..2}

\* bytes put on the stream by something other than a PrefixEncoder: a header
\* and a body of any length
WriteRaw ==
    /\ phase = "write"
    /\ Len(log) < MaxRecords
    /\ \E shape \in RawHeaders, n \in 0..MaxRawBody :
        LET hdr == Header(shape[1], shape[2], shape[3])
            body == Fill(n, 97)
        IN  /\ wire' = wire \o hdr \o body
            /\ log' = Append(log, LogEntry("raw", hdr, body))
    /\ UNCHANGED <<enc_last_key, last_write, phase, rd_pos, dec_last_key,
                   dec_last_value, results, cpVars, pathVars,
                   jsonVars, matchVars>>

\* the reading loop has ended: read_next returned None or an error
Finished == results # <<>> /\ results[Len(results)].tag # "Some"

\* decoder.read_next() on a decoder over the bytes written so far
ReadNext ==
    /\ ~Finished
    /\ LET r == read_next(wire, [pos |-> rd_pos, last_key |-> dec_last_key,
                                 last_value |-> dec_last_value])
       IN  /\ rd_pos' = r.pos
           /\ dec_last_key' = r.last_key
           /\ dec_last_value' = r.last_value
           /\ results' = Append(results, r.res)
    /\ phase' = "read"
    /\ UNCHANGED <<enc_last_key, wire, log, last_write, cpVars, pathVars,
                   jsonVars, matchVars>>


(***************************************************************************)
(* The path codec: segments pushed to PathBufs, and a PathIter over the    *)
(* bytes of the first one.                                                 *)
(***************************************************************************)
\* 2^32
TwoTo32 == <<0, 0, 0, 1, 0, 0, 0, 0>>

\* keys: non-empty, no byte <= 0x0F ("a", "b", "ab")
PathKeys == { <<97>>, <<98>>, <<97, 98>> }

\* indices: 0 and values of 1, 2, 4 and 8 payload bytes
PathIndices == { U64(0), U64(1), U64(255), U64(256), U64(65536), TwoTo32 }

PathSegments ==
    { Key(k) : k \in PathKeys } \cup { Index(n) : n \in PathIndices } \cup {Cont}

PathInit ==
    /\ pa = <<>>
    /\ pa_buf = <<>>
    /\ pb = <<>>
    /\ pb_buf = <<>>
    /\ it_pos = -1
    /\ it_items = <<>>

\* the iterator has not been created
NotIterating == it_pos = -1

\* path_buf.push_key / push_index / push_continued on the first PathBuf
PushA ==
    /\ NotIterating
    /\ Len(pa) < MaxSegs
    /\ \E seg \in PathSegments :
        /\ pa' = Append(pa, seg)
        /\ pa_buf' = push_segment(pa_buf, seg)
    /\ UNCHANGED <<pb, pb_buf, it_pos, it_items, cpVars, streamVars,
                   jsonVars, matchVars>>

\* Path::from_vec(path_buf.into_inner()).iter()
IterNew ==
    /\ NotIterating
    /\ it_pos' = 0
    /\ UNCHANGED <<pa, pa_buf, pb, pb_buf, it_items, cpVars, streamVars,
                   jsonVars, matchVars>>

\* the iterator has returned None
IterDone == it_pos >= Len(pa_buf)

\* iter.next() returning Some(item)
IterNext ==
    /\ ~NotIterating
    /\ ~IterDone
    /\ LET r == iter_next_cont(pa_buf, it_pos)
       IN  /\ it_pos' = r.pos
           /\ it_items' = Append(it_items, r.item)
    /\ UNCHANGED <<pa, pa_buf, pb, pb_buf, cpVars, streamVars,
                   jsonVars, matchVars>>

\* keys push_key may be handed besides PathKeys: "a\n", "\t", "a\x0f", the
\* empty key, and a key that fills a path of 32 KiB with its tag
RawKeys ==
    { <<97, 10>>, <<9>>, <<97, 15>>, <<>>, Fill(PATH_LIMIT - 1, 97) }

\* path_buf.push_key(key) with any key: it returns Ok(()) and the buffer
\* holds the tag and the key's bytes
PushRawKey ==
    /\ NotIterating
    /\ Len(pa) < MaxSegs
    /\ \E key \in RawKeys :
        /\ pa' = Append(pa, Key(key))
        /\ pa_buf' = push_key(pa_buf, key)
    /\ UNCHANGED <<pb, pb_buf, it_pos, it_items, cpVars, streamVars,
                   jsonVars, matchVars>>

\* every sequence over V of length at most n
SeqsUpTo(V, n) == UNION {[1..k -> V] : k \in 0..n}

\* bytes of a path that no PathBuf wrote: the tags 0 to 4 and 7, a tag
\* above MAX_INDEX_BYTES, the continuation marker, a letter
RawBytes == {0, 1, 2, 3, 4, 7, 9, 15, 97}

\* Path::from_slice(buf) on any bytes
FromSlice ==
    /\ NotIterating
    /\ pa_buf = <<>>
    /\ \E buf \in SeqsUpTo(RawBytes, MaxRawLen) \ {<<>>} : pa_buf' = buf
    /\ UNCHANGED <<pa, pb, pb_buf, it_pos, it_items, cpVars, streamVars,
                   jsonVars, matchVars>>

\* pushes on two PathBufs, whose bytes are then compared
PushOrderA ==
    /\ Len(pa) < MaxOrderSegs
    /\ \E seg \in PathSegments :
        /\ pa' = Append(pa, seg)
        /\ pa_buf' = push_segment(pa_buf, seg)
    /\ UNCHANGED <<pb, pb_buf, it_pos, it_items, cpVars, streamVars,
                   jsonVars, matchVars>>

PushOrderB ==
    /\ Len(pb) < MaxOrderSegs
    /\ \E seg \in PathSegments :
        /\ pb' = Append(pb, seg)
        /\ pb_buf' = push_segment(pb_buf, seg)
    /\ UNCHANGED <<pa, pa_buf, it_pos, it_items, cpVars, streamVars,
                   jsonVars, matchVars>>

(***************************************************************************)
(* 64-bit arithmetic on 8 big-endian bytes.                                *)
(***************************************************************************)
\* v << 1
Shl1(v) ==
    [i \in 1..8 |->
        ((v[i] * 2) % 256) + (IF i < 8 THEN v[i + 1] \div 128 ELSE 0)]

\* v >> 1 (logical)
Shr1(v) ==
    [i \in 1..8 |->
        (v[i] \div 2) + (IF i > 1 THEN (v[i - 1] % 2) * 128 ELSE 0)]

\* !v
Not64(v) == [i \in 1..8 |-> 255 - v[i]]

\* v - 1, wrapping
Sub1(v) ==
    IF v = Zero64 THEN Fill(8, 255)
    ELSE LET j == CHOOSE k \in 1..8 :
                      v[k] # 0 /\ \A l \in (k + 1)..8 : v[l] = 0
         IN  [i \in 1..8 |-> IF i < j THEN v[i]
                             ELSE IF i = j THEN v[i] - 1 ELSE 255]

\* the i64 of an integer of small magnitude, in two's complement
I64(n) == IF n >= 0 THEN U64(n) ELSE Not64(U64((0 - n) - 1))

\* v < 0 for an i64
IsNeg(v) == v[1] >= 128

\* index as usize, for an index below 2^31
U64ToNat(v) == ((v[5] * 256 + v[6]) * 256 + v[7]) * 256 + v[8]

\* the index fits the model's integers
SmallU64(v) == Prefix(v, 4) = Fill(4, 0) /\ v[5] < 128

Reverse(sq) == [i \in 1..Len(sq) |-> sq[Len(sq) + 1 - i]]

(***************************************************************************)
(* lib.rs, json/mod.rs: size_hint and the value tags.                      *)
(***************************************************************************)
size_hint(n) ==
    IF n = Zero64 THEN 0
    ELSE IF Prefix(n, 7) = Fill(7, 0) THEN 1
    ELSE IF Prefix(n, 6) = Fill(6, 0) THEN 2
    ELSE IF Prefix(n, 4) = Fill(4, 0) THEN 4
    ELSE 8

TAG_BOOL_FALSE == 128
TAG_BOOL_TRUE == 129
TAG_STRING == 130
TAG_FLOAT == 131
TAG_NULL == 132
TAG_INTEGER == 0

(***************************************************************************)
(* serde_json::Value. An object is its (key, value) pairs in key order (a  *)
(* BTreeMap); an integer is an i64 and a float the bits of an f64.         *)
(***************************************************************************)
JNull == [t |-> "Null", v |-> <<>>]
JBool(b) == [t |-> "Bool", v |-> <<IF b THEN 1 ELSE 0>>]
JInt(v) == [t |-> "Int", v |-> v]
JFloat(bits) == [t |-> "Float", v |-> bits]
JStr(bytes) == [t |-> "String", v |-> bytes]
JArr(items) == [t |-> "Array", v |-> items]
JObj(pairs) == [t |-> "Object", v |-> pairs]

\* Value::from(f64): Null for a float that is not finite (all exponent
\* bits set)
JFromF64(bits) ==
    IF bits[1] % 128 = 127 /\ bits[2] >= 240 THEN JNull ELSE JFloat(bits)

\* Map::get on the pairs of an object
ObjHas(pairs, key) == \E i \in 1..Len(pairs) : pairs[i][1] = key

ObjGet(pairs, key) ==
    pairs[CHOOSE i \in 1..Len(pairs) : pairs[i][1] = key][2]

\* the pairs with key set to val, kept in key order
ObjPut(pairs, key, val) ==
    IF ObjHas(pairs, key)
    THEN [i \in 1..Len(pairs) |->
             IF pairs[i][1] = key THEN <<key, val>> ELSE pairs[i]]
    ELSE LET before == SelectSeq(pairs, LAMBDA q : SeqLess(q[1], key))
             after == SelectSeq(pairs, LAMBDA q : SeqLess(key, q[1]))
         IN  before \o <<<<key, val>>>> \o after

(***************************************************************************)
(* json/flatten.rs. The build decides what an overflowing subtraction      *)
(* does: a panic with debug assertions, a wrapped result without.          *)
(***************************************************************************)
Entry(path, value) == [path |-> path, value |-> value]

\* what a run of flatten leaves: the entries pushed and how it ended
Flat(entries, status) == [entries |-> entries, status |-> status]

\* two parts of one traversal, the second run only if the first ended well
FlatThen(a, b) ==
    IF a.status # "ok" THEN a ELSE Flat(a.entries \o b.entries, b.status)

\* the value bytes of a float: the tag and f64::to_le_bytes
float_value(bits) == <<TAG_FLOAT>> \o Reverse(bits)

\* the value bytes of an integer
integer_value(v) ==
    LET zigzag == IF IsNeg(v) THEN Sub1(Shl1(v)) ELSE Shl1(v)
        byte_len == size_hint(zigzag)
    IN  \* TAG_INTEGER | byte_len, TAG_INTEGER being 0
        <<TAG_INTEGER + byte_len>> \o Suffix(zigzag, 8 - byte_len)

RECURSIVE flatten_chunks(_, _, _, _, _, _)
\* the while loop over a string longer than chunk_size, from offset index,
\* pushed holding the entries of the offsets before it
flatten_chunks(build, chunk_size, bytes, path_buf, index, pushed) ==
    IF index >= Len(bytes) THEN Flat(pushed, "ok")
    ELSE
    LET path == push_continued(push_index(path_buf, U64(index)))
        path_len == Len(path)
        rest == Len(bytes) - index
    IN  IF chunk_size < path_len + 6 /\ build = "debug"
        THEN Flat(pushed, "panic")
        ELSE
        LET chunk_len == IF chunk_size < path_len + 6 THEN rest
                         ELSE Min(chunk_size - path_len - 6, rest)
        IN  IF chunk_len = 0
            THEN \* index never advances: the same entry is pushed for ever
                 Flat(pushed, "diverges")
            ELSE flatten_chunks(build, chunk_size, bytes, path_buf,
                                index + chunk_len,
                                Append(pushed,
                                       Entry(path, SubSeq(bytes, index + 1,
                                                          index + chunk_len))))

RECURSIVE flatten_inner(_, _, _, _)
RECURSIVE flatten_array(_, _, _, _, _, _)
RECURSIVE flatten_object(_, _, _, _, _)

\* the loop over an array's items lo..hi (1-based), in order; the range is
\* halved so that an array of hundreds of items is walked at a small depth
flatten_array(build, chunk_size, items, lo, hi, path_buf) ==
    IF lo > hi THEN Flat(<<>>, "ok")
    ELSE IF lo = hi
    THEN flatten_inner(build, chunk_size, items[lo],
                       push_index(path_buf, U64(lo - 1)))
    ELSE LET mid == (lo + hi) \div 2
         IN  FlatThen(
                 flatten_array(build, chunk_size, items, lo, mid, path_buf),
                 flatten_array(build, chunk_size, items, mid + 1, hi, path_buf))

\* the loop over an object's pairs, from pair i (1-based) on
flatten_object(build, chunk_size, pairs, i, path_buf) ==
    IF i > Len(pairs) THEN Flat(<<>>, "ok")
    ELSE FlatThen(
             flatten_inner(build, chunk_size, pairs[i][2],
                           push_key(path_buf, pairs[i][1])),
             flatten_object(build, chunk_size, pairs, i + 1, path_buf))

\* flatten_inner: the entries pushed to acc for value at path_buf
flatten_inner(build, chunk_size, value, path_buf) ==
    CASE value.t = "Null" ->
            Flat(<<Entry(path_buf, <<TAG_NULL>>)>>, "ok")
      [] value.t = "Array" ->
            flatten_array(build, chunk_size, value.v, 1, Len(value.v), path_buf)
      [] value.t = "Object" ->
            flatten_object(build, chunk_size, value.v, 1, path_buf)
      [] value.t = "String" ->
            IF Len(value.v) <= chunk_size
            THEN Flat(<<Entry(path_buf, <<TAG_STRING>> \o value.v)>>, "ok")
            ELSE flatten_chunks(build, chunk_size, value.v, path_buf, 0, <<>>)
      [] value.t = "Int" ->
            IF IsNeg(value.v) /\ Shl1(value.v) = Zero64 /\ build = "debug"
            THEN Flat(<<>>, "panic")
            ELSE Flat(<<Entry(path_buf, integer_value(value.v))>>, "ok")
      [] value.t = "Float" ->
            Flat(<<Entry(path_buf, float_value(value.v))>>, "ok")
      [] OTHER ->
            Flat(<<Entry(path_buf,
                         <<IF value.v = <<1>> THEN TAG_BOOL_TRUE
                                              ELSE TAG_BOOL_FALSE>>)>>, "ok")

\* Flatten::flatten
flatten(build, chunk_size, value) ==
    flatten_inner(build, chunk_size, value, <<>>)

(***************************************************************************)
(* json/merge.rs. A panic anywhere in merge_into leaves JPanic.            *)
(***************************************************************************)
JPanic == [t |-> "Panic", v |-> <<>>]

\* str::is_char_boundary
IsCharBoundary(str, offset) ==
    offset = Len(str) \/ (offset < Len(str) /\ ~IsCont(str[offset + 1]))

RECURSIVE merge_zigzag(_, _)
\* the loop over bytes.iter().rev(): zigzag = (zigzag << 8) | byte, the
\* bytes taken from the last one to the first
merge_zigzag(bytes, zigzag) ==
    IF bytes = <<>> THEN zigzag
    ELSE merge_zigzag(Prefix(bytes, Len(bytes) - 1),
                      Suffix(zigzag, 1) \o <<bytes[Len(bytes)]>>)

\* the arm of merge_into for every tag that is not a named one
merge_integer(value) ==
    LET len == value[1] % 16
    IN  IF Len(value) < 1 + len THEN JPanic
        ELSE LET zigzag == merge_zigzag(SubSeq(value, 2, 1 + len), Zero64)
             IN  JInt(IF zigzag[8] % 2 = 0 THEN Shr1(zigzag)
                                           ELSE Not64(Shr1(zigzag)))

\* String::from_utf8_lossy on bytes that are valid UTF-8; bytes that are not
\* become U+FFFD here
from_utf8_lossy(bytes) ==
    IF Utf8Valid(bytes) THEN bytes ELSE <<239, 191, 189>>

\* the body of merge_into's loop after touch: what target holds afterwards
merge_value(target, offset, value) ==
    IF offset > 0
    THEN IF target.t # "String" THEN target
         ELSE IF ~Utf8Valid(value) THEN JPanic
         ELSE IF offset < Len(value)
              THEN IF offset <= Len(target.v)
                      /\ IsCharBoundary(target.v, offset)
                   THEN JStr(Prefix(target.v, offset) \o value)
                   ELSE JPanic
         ELSE IF offset = Len(value) THEN JStr(target.v \o value)
         ELSE JPanic
    ELSE IF value = <<>> THEN JPanic
    ELSE LET tag == value[1]
         IN  CASE tag = TAG_NULL -> JNull
               [] tag = TAG_STRING -> JStr(from_utf8_lossy(Suffix(value, 1)))
               [] tag = TAG_FLOAT ->
                     IF Len(value) # 9 THEN JPanic
                     ELSE JFromF64(Suffix(value, 1))
               [] tag = TAG_BOOL_TRUE -> JBool(TRUE)
               [] tag = TAG_BOOL_FALSE -> JBool(FALSE)
               [] OTHER -> merge_integer(value)

RECURSIVE touch(_, _, _, _, _, _)
\* touch followed by the loop body on the reference it returns: current
\* after the segments from items[i] on are walked and the target is written
touch(current, items, i, offset, cont, value) ==
    IF i > Len(items)
    THEN merge_value(current, IF cont THEN offset ELSE 0, value)
    ELSE IF items[i].res # "Ok" THEN JPanic
    ELSE
    LET seg == items[i].seg
    IN  CASE seg.t = "Key" ->
                LET obj == IF current.t = "Object" THEN current.v ELSE <<>>
                    child == IF ObjHas(obj, seg.s) THEN ObjGet(obj, seg.s)
                             ELSE JNull
                    r == touch(child, items, i + 1, offset, cont, value)
                IN  IF r.t = "Panic" THEN JPanic
                    ELSE JObj(ObjPut(obj, seg.s, r))
          [] seg.t = "Index" ->
                IF current.t # "Array" /\ seg.n # Zero64 THEN JPanic
                ELSE IF ~SmallU64(seg.n) THEN JPanic
                ELSE
                LET arr == IF current.t = "Array" THEN current.v ELSE <<>>
                    at == U64ToNat(seg.n)
                    resized == IF at >= Len(arr)
                               THEN arr \o Fill(at + 1 - Len(arr), JNull)
                               ELSE arr
                    r == touch(resized[at + 1], items, i + 1, at, cont, value)
                IN  IF r.t = "Panic" THEN JPanic
                    ELSE JArr([resized EXCEPT ![at + 1] = r])
          [] OTHER ->
                \* PathSegment::Cont: the comparison with String("") has no
                \* effect on current
                touch(current, items, i + 1, offset, TRUE, value)

RECURSIVE merge_into(_, _, _)
\* Merge::merge_into: the loop over the entries, from entry i on
merge_into(acc, entries, i) ==
    IF i > Len(entries) THEN acc
    ELSE LET r == touch(acc, iter_collect(entries[i].path, 0), 1, 0, FALSE,
                        entries[i].value)
         IN  IF r.t = "Panic" THEN JPanic
             ELSE merge_into(r, entries, i + 1)

\* Merge::merge: merge_into a default Value
merge(entries) == merge_into(JNull, entries, 1)

(***************************************************************************)
(* Documents that are flattened and merged back.                           *)
(***************************************************************************)
\* the bytes of a string of length n with no two neighbours alike
Letters(n) == [i \in 1..n |-> 97 + (i % 26)]

\* 1.5f64
F64_1_5 == <<63, 248, 0, 0, 0, 0, 0, 0>>

\* 7 and 9 leave no room for a chunk beside a path and the 6 header bytes
ChunkSizes == {7, 9, 16, 100}

Builds == {"debug", "release"}

ObjKeys == {<<97>>, <<98>>}

JScalars ==
    {JNull, JBool(TRUE), JBool(FALSE),
     JInt(I64(0)), JInt(I64(1)), JInt(I64(128)), JInt(I64(0 - 1)),
     JFloat(F64_1_5),
     JStr(<<>>), JStr(<<104, 105>>), JStr(Letters(17))}

\* the arrays with items from V
JArrays(V) == {JArr(items) : items \in SeqsUpTo(V, MaxArrayLen)}

\* the objects with keys from ObjKeys and values from V
JObjects(V) ==
    {JObj(<<>>)}
    \cup {JObj(<<<<k, x>>>>) : k \in ObjKeys, x \in V}
    \cup {JObj(<<<<(<<97>>), x>>, <<(<<98>>), y>>>>) : x \in V, y \in V}

\* what the containers of the nested documents hold
JNested ==
    {JArr(<<JBool(TRUE)>>), JArr(<<>>), JObj(<<<<(<<97>>), JInt(I64(1))>>>>),
     JStr(Letters(17))}

\* documents with indices and chunk offsets of more than one payload
\* length, objects with the keys "a", "ab" and "a\u0001", and an array of
\* objects
JWide ==
    {JArr([i \in 1..257 |-> JBool(TRUE)]),
     JStr(Letters(300)),
     JObj(<<<<(<<97>>), JArr(<<JBool(TRUE), JBool(FALSE)>>)>>,
            <<(<<97, 98>>), JStr(Letters(17))>>>>),
     JObj(<<<<(<<97>>), JArr(<<JBool(TRUE), JBool(FALSE)>>)>>,
            <<(<<97, 1>>), JBool(TRUE)>>>>),
     JArr(<<JObj(<<<<(<<97>>), JBool(TRUE)>>>>),
            JObj(<<<<(<<97>>), JBool(FALSE)>>>>)>>)}

\* i64::MIN and i64::MAX
MinI64 == <<128, 0, 0, 0, 0, 0, 0, 0>>
MaxI64 == <<127, 255, 255, 255, 255, 255, 255, 255>>

\* integers whose zig-zag form takes 0, 1, 2, 4 and 8 bytes
JInts ==
    {JInt(v) : v \in {I64(63), I64(0 - 64), I64(64), I64(0 - 65), I64(32767),
                      I64(0 - 32768), I64(32768), I64(2147483647),
                      I64(0 - 2147483647), <<0, 0, 0, 0, 128, 0, 0, 0>>,
                      MinI64, MaxI64}}

\* finite floats: 0.0, 0.1, -2.5, and the subnormal whose bytes, read from
\* the last to the first, are those of +infinity
JFloats ==
    {JFloat(bits) : bits \in {<<0, 0, 0, 0, 0, 0, 0, 0>>,
                              <<63, 185, 153, 153, 153, 153, 153, 154>>,
                              <<192, 4, 0, 0, 0, 0, 0, 0>>,
                              <<0, 0, 0, 0, 0, 0, 240, 127>>}}

JDocs ==
    JScalars \cup JArrays(JScalars) \cup JObjects(JScalars)
        \cup JArrays(JNested) \cup JObjects(JNested) \cup JWide \cup JInts
        \cup JFloats

NoFlat == Flat(<<>>, "none")

JsonIdle ==
    /\ j_build = "debug"
    /\ j_chunk_size = 0
    /\ j_doc = JNull
    /\ j_flat = NoFlat
    /\ j_acc = JNull
    /\ j_phase = "idle"
    /\ j_kept = <<>>

JsonInit ==
    /\ j_build \in Builds
    /\ j_chunk_size \in ChunkSizes
    /\ j_doc \in JDocs
    /\ j_flat = NoFlat
    /\ j_acc = JNull
    /\ j_phase = "new"
    /\ j_kept = <<>>

\* value.flatten(chunk_size)
FlattenCall ==
    /\ j_phase = "new"
    /\ j_flat' = flatten(j_build, j_chunk_size, j_doc)
    /\ j_phase' = "flat"
    /\ UNCHANGED <<j_build, j_chunk_size, j_doc, j_acc, j_kept, cpVars,
                   streamVars, pathVars, matchVars>>

\* entries.into_iter().merge(), once flatten has returned
MergeCall ==
    /\ j_phase = "flat"
    /\ j_flat.status = "ok"
    /\ j_kept' = j_flat.entries
    /\ j_acc' = merge(j_flat.entries)
    /\ j_phase' = "merged"
    /\ UNCHANGED <<j_build, j_chunk_size, j_doc, j_flat, cpVars, streamVars,
                   pathVars, matchVars>>

\* entries.into_iter().filter(..): the entries at the positions K, in order
Filtered(entries, K) ==
    [k \in 1..Cardinality(K) |->
        entries[CHOOSE i \in K : Cardinality({j \in K : j < i}) = k - 1]]

\* entries.into_iter().filter(..).merge(), once flatten has returned: the
\* filter keeps the entries at any set of positions
MergeFiltered ==
    /\ j_phase = "flat"
    /\ j_flat.status = "ok"
    /\ Len(j_flat.entries) <= MaxFiltered
    /\ \E K \in SUBSET (1..Len(j_flat.entries)) :
           /\ j_kept' = Filtered(j_flat.entries, K)
           /\ j_acc' = merge(Filtered(j_flat.entries, K))
    /\ j_phase' = "merged"
    /\ UNCHANGED <<j_build, j_chunk_size, j_doc, j_flat, cpVars, streamVars,
                   pathVars, matchVars>>

(***************************************************************************)
(* merge_into on an accumulator that already holds a value in the slot a   *)
(* continuation entry names: j_doc is the accumulator before the call, the *)
(* slot being the root or the member "a" of the root.                      *)
(***************************************************************************)
\* what the slot holds before the entry is merged
ContSlots ==
    {JNull, JStr(<<>>), JStr(<<104, 105>>), JStr(<<104, 101, 108, 108, 111>>)}

ContTargets == ContSlots \cup {JObj(<<<<(<<97>>), x>>>>) : x \in ContSlots}

\* the value bytes of a continuation entry: raw bytes, no tag
ContChunks == {<<33>>, <<119, 111>>, <<97, 98, 99>>}

\* the segments of the path of the slot
SlotSegs(doc) == IF doc.t = "Object" THEN <<Key(<<97>>)>> ELSE <<>>

\* the path flatten gives the chunk at offset o of the string in the slot
ContPath(doc, o) ==
    push_continued(push_index(from_iter(SlotSegs(doc)), U64(o)))

ContInit ==
    /\ j_build = "debug"
    /\ j_chunk_size = 0
    /\ j_doc \in ContTargets
    /\ j_flat = NoFlat
    /\ j_acc = j_doc
    /\ j_phase = "acc"
    /\ j_kept = <<>>

\* [(path ++ Index(o) ++ Cont, chunk)].into_iter().merge_into(&mut acc)
MergeContinuation ==
    /\ j_phase = "acc"
    /\ \E o \in 0..MaxOffset, chunk \in ContChunks :
           /\ j_kept' = <<Entry(ContPath(j_doc, o), chunk)>>
           /\ j_acc' = merge_into(j_doc, <<Entry(ContPath(j_doc, o), chunk)>>, 1)
    /\ j_phase' = "continued"
    /\ UNCHANGED <<j_build, j_chunk_size, j_doc, j_flat, cpVars, streamVars,
                   pathVars, matchVars>>

(***************************************************************************)
(* json_path/filter.rs: is_match. A token's Index and the items of an      *)
(* IndexUnion are the 8 bytes of an i64, a Slice's bounds those of a u64.  *)
(***************************************************************************)
\* a JsonPathToken: the variant t with its fields (key of Member, a of Index,
\* a and b of Slice(a, b, _), keys of MemberUnion, idxs of IndexUnion)
Token(t, key, a, b, keys, idxs) ==
    [t |-> t, key |-> key, a |-> a, b |-> b, keys |-> keys, idxs |-> idxs]

\* sq.contains(x)
Contains(sq, x) == \E i \in 1..Len(sq) : sq[i] = x

RECURSIVE match_path_inner(_, _, _, _)
\* match_path_inner, token_index and path_index 0-based as in the source
match_path_inner(tokens, token_index, path, path_index) ==
    IF token_index >= Len(tokens) THEN TRUE
    ELSE
    LET tok == tokens[token_index + 1]
        some == path_index < Len(path)
        seg == path[path_index + 1]
        isKey == some /\ seg.t = "Key"
        isIndex == some /\ seg.t = "Index"
        advance == match_path_inner(tokens, token_index + 1, path,
                                    path_index + 1)
    IN  CASE tok.t = "Root" ->
                match_path_inner(tokens, token_index + 1, path, 0)
          [] tok.t = "Current" ->
                match_path_inner(tokens, token_index + 1, path, path_index)
          [] tok.t = "Member" ->
                isKey /\ seg.s = tok.key /\ advance
          [] tok.t = "Index" ->
                isIndex /\ seg.n = tok.a /\ advance
          [] tok.t = "Wildcard" ->
                advance
          [] tok.t = "RecursiveDescend" ->
                \/ \E i \in path_index..(Len(path) - 1) :
                       match_path_inner(tokens, token_index + 1, path, i)
                \/ match_path_inner(tokens, token_index + 1, path, path_index)
          [] tok.t = "Slice" ->
                /\ isIndex
                /\ ~SeqLess(seg.n, tok.a)
                /\ SeqLess(seg.n, tok.b)
                /\ advance
          [] tok.t = "MemberUnion" ->
                isKey /\ Contains(tok.keys, seg.s) /\ advance
          [] OTHER ->
                isIndex /\ Contains(tok.idxs, seg.n) /\ advance

\* JsonPath::is_match on the bytes of a path
is_match(tokens, buf) ==
    LET items == iter_collect(buf, 0)
    IN  /\ \A i \in 1..Len(items) : items[i].res = "Ok"
        /\ match_path_inner(tokens, 0,
                            [i \in 1..Len(items) |-> items[i].seg], 0)

\* $, @, .a, [1], .*, .., [0:2], ['a','b'], [0,1]
MatchTokens ==
    {Token("Root", <<>>, Zero64, Zero64, <<>>, <<>>),
     Token("Current", <<>>, Zero64, Zero64, <<>>, <<>>),
     Token("Member", <<97>>, Zero64, Zero64, <<>>, <<>>),
     Token("Index", <<>>, U64(1), Zero64, <<>>, <<>>),
     Token("Wildcard", <<>>, Zero64, Zero64, <<>>, <<>>),
     Token("RecursiveDescend", <<>>, Zero64, Zero64, <<>>, <<>>),
     Token("Slice", <<>>, U64(0), U64(2), <<>>, <<>>),
     Token("MemberUnion", <<>>, Zero64, Zero64, <<(<<97>>), (<<98>>)>>, <<>>),
     Token("IndexUnion", <<>>, Zero64, Zero64, <<>>, <<U64(0), U64(1)>>)}

MatchSegments == {Key(<<97>>), Key(<<98>>), Index(U64(0)), Index(U64(1))}

NoMatchOut ==
    [called |-> FALSE, p |-> FALSE, ps |-> FALSE, ip |-> FALSE, ips |-> FALSE]

MatchIdle ==
    /\ m_query = <<>>
    /\ m_path = <<>>
    /\ m_ext = <<>>
    /\ m_out = NoMatchOut

MatchInit ==
    /\ m_query \in SeqsUpTo(MatchTokens, MaxTokens)
    /\ m_path \in SeqsUpTo(MatchSegments, MaxMatchSegs)
    /\ m_ext \in SeqsUpTo(MatchSegments, MaxExtSegs) \ {<<>>}
    /\ m_out = NoMatchOut

\* query.is_match on the path and on the path with the further segments;
\* ip and ips are match_path_inner on the segments themselves
IsMatchCall ==
    /\ ~m_out.called
    /\ m_out' = [called |-> TRUE,
                 p |-> is_match(m_query, from_iter(m_path)),
                 ps |-> is_match(m_query, from_iter(m_path \o m_ext)),
                 ip |-> match_path_inner(m_query, 0, m_path, 0),
                 ips |-> match_path_inner(m_query, 0, m_path \o m_ext, 0)]
    /\ UNCHANGED <<m_query, m_path, m_ext, cpVars, streamVars, pathVars,
                   jsonVars>>

(***************************************************************************)
(* Properties of the stream codec.                                         *)
(***************************************************************************)
IsPrefixOf(a, b) == Len(a) <= Len(b) /\ a = SubSeq(b, 1, Len(a))

\* every record of the log is a normal record
NoExtension == \A i \in 1..Len(log) : log[i].kind = "rec"

\* the keys were given to write_next in byte-lexicographic order
SortedKeys ==
    \A i, j \in 1..Len(log) : i < j => ~SeqLess(log[j].key, log[i].key)

\* the first n records of the log, as read_next returns them
SomeOfLog(n) == [i \in 1..n |-> ResSome(log[i].key, log[i].value)]

\* C1: Stream round-trip. For a sorted sequence of (key, value) pairs written
\* in order with write_next, the results of read_next are exactly those
\* pairs, in the same order, byte for byte, and then None.
C1_StreamRoundTrip ==
    (NoExtension /\ SortedKeys) =>
        /\ IsPrefixOf(results, SomeOfLog(Len(log)) \o <<ResNone>>)
        /\ Finished => results = SomeOfLog(Len(log)) \o <<ResNone>>

\* C1 witness: three sorted records, two of them sharing a prefix longer
\* than a chunk, have been written and read back to the end.
C1_Witness ==
    /\ Finished /\ NoExtension /\ SortedKeys
    /\ Len(log) = 3
    /\ Len(results) = 4
    /\ log[2].key # log[3].key
    /\ common_prefix(log[2].key, log[3].key) > CHUNK_N
    /\ log[3].value # <<>>

RECURSIVE PlainFrom(_, _)
\* the bytes the write_next calls of the log produce on their own
PlainFrom(last_key, entries) ==
    IF entries = <<>> THEN <<>>
    ELSE IF Head(entries).kind # "rec" THEN PlainFrom(last_key, Tail(entries))
    ELSE LET r == write_next(last_key, Head(entries).key, Head(entries).value)
         IN  r.bytes \o PlainFrom(r.last_key, Tail(entries))

\* the stream with its extension records removed
PlainBytes == PlainFrom(<<>>, log)

\* the log is normal records with one optional extension record between two
\* of them
OneOptionalBetweenNormals ==
    \E i \in 2..(Len(log) - 1) :
        /\ log[i].kind = "optional"
        /\ \A j \in 1..Len(log) : j # i => log[j].kind = "rec"

\* C4: Extension skip. A stream with an optional-skippable extension record
\* between two normal records decodes to the same sequence as the stream
\* with that extension record removed.
C4_ExtensionSkip ==
    (OneOptionalBetweenNormals /\ Finished) => results = DecodeAll(PlainBytes)

\* the log starts with n normal records followed by a mandatory extension
MandatoryAfter(n) ==
    /\ n < Len(log)
    /\ log[n + 1].kind = "mandatory"
    /\ \A j \in 1..n : log[j].kind = "rec"

\* C5: Extension fail. When a mandatory extension record follows n normal
\* records, the first n calls of read_next return those records and the next
\* call returns an Unsupported error.
C5_ExtensionFail ==
    \A n \in 0..Len(log) :
        MandatoryAfter(n) =>
            /\ IsPrefixOf(results, SomeOfLog(n) \o <<ResErr("Unsupported")>>)
            /\ Finished => results = SomeOfLog(n) \o <<ResErr("Unsupported")>>

\* C5 witness: two records were read back and the third call failed on the
\* mandatory extension record that follows them.
C5_Witness ==
    /\ MandatoryAfter(2)
    /\ Len(results) = 3
    /\ results[2].tag = "Some"
    /\ results[3].tag = "Unsupported"

\* C9: Prefix idempotence. write_next(k, v) on an encoder whose last_key is k
\* writes prefix_len = |k|, an empty key tail, and so exactly the 6 header
\* bytes followed by v.
C9_PrefixIdempotence ==
    (last_write.called /\ last_write.last_key = last_write.key) =>
        /\ Len(last_write.bytes) = 6 + Len(last_write.value)
        /\ SubSeq(last_write.bytes, 1, 2) = U16BE(Len(last_write.key))
        /\ SubSeq(last_write.bytes, 3, 4) = U16BE(Len(last_write.value))
        /\ SubSeq(last_write.bytes, 5, 6) = U16BE(Len(last_write.key))
        /\ Suffix(last_write.bytes, 6) = last_write.value

\* C9 witness: the same key, longer than a chunk, was written twice in a row.
C9_Witness ==
    /\ last_write.called
    /\ last_write.last_key = last_write.key
    /\ Len(last_write.key) > CHUNK_N
    /\ last_write.value # <<>>

\* the last record of the stream was written in part
Truncated == log # <<>> /\ log[Len(log)].kind = "partial"

\* C11: read_next returns None only when the source has zero bytes left at a
\* record boundary; a source that ends after 1 to 5 bytes of a header makes
\* read_next return an I/O error, not None.
C11_TruncatedHeader ==
    [][(results' # results /\ results'[Len(results')].tag = "None")
           => (Remaining(wire, rd_pos) = 0 /\ ~Truncated)]_vars

\* the record at pos is an extension record the decoder may skip
SkippableAt(w, pos) ==
    /\ Remaining(w, pos) >= 6
    /\ IsExtension(w[pos + 1])
    /\ IsOptional(w[pos + 5])

\* the normal record of the result r ends at position end of the stream w,
\* starts at or after position from, and its key is its tail bytes after
\* the first prefix_len bytes of last_key
BuiltOn(w, from, end, r, last_key) ==
    \E prefix_len \in 0..Len(r.key) :
        LET at == end - Len(r.value) - (Len(r.key) - prefix_len) - 6
        IN  /\ at >= from
            /\ SubSeq(w, at + 1, at + 6)
                   = Header(Len(r.key), Len(r.value), prefix_len)
            /\ r.key = Prefix(Resize(last_key, Len(r.key)), prefix_len)
                           \o SubSeq(w, at + 7, at + 6 + Len(r.key) - prefix_len)

\* C29: skipping an optional extension record leaves the decoder's last_key
\* unchanged: a call of read_next that starts at such a record builds the
\* key of the normal record it returns on the first prefix_len bytes of
\* the last_key the decoder had before the extension, and when it returns
\* no record last_key is what it was.
C29_SkipKeepsLastKey ==
    [][(Len(results') = Len(results) + 1 /\ SkippableAt(wire, rd_pos)) =>
          LET r == results'[Len(results')]
          IN  /\ r.tag = "Some" =>
                     BuiltOn(wire, rd_pos + 6, rd_pos', r, dec_last_key)
              /\ r.tag \in {"None", "Unsupported"} =>
                     dec_last_key' = dec_last_key
      ]_vars

\* C29 witness: a record after an optional extension record has been read
\* back, its key sharing a prefix with the key of the record before the
\* extension.
C29_Witness ==
    /\ Len(log) = 3
    /\ log[1].kind = "rec" /\ log[2].kind = "optional" /\ log[3].kind = "rec"
    /\ common_prefix(log[1].key, log[3].key) > 0
    /\ log[1].key # log[3].key
    /\ Len(results) = 2
    /\ results[2] = ResSome(log[3].key, log[3].value)

\* C27: for every byte input read_next returns a record, None or an error
\* and never accesses its buffers out of range: a normal record whose
\* header has prefix_len > key_len is reported as an error, not as a failed
\* slice access.
C27_NoOutOfRange ==
    \A i \in 1..Len(results) : results[i] # ResErr("Panic")

\* C14: the encoder never emits a normal record whose key_len field has its
\* top bit set: a key longer than 0x7FFF bytes is stopped by the size
\* precondition before any byte is written.
C14_NoTopBitKeyLen ==
    last_write.called => ~IsExtension(last_write.bytes[1])

(***************************************************************************)
(* Properties of common_prefix.                                            *)
(***************************************************************************)
\* n is the length of the longest common prefix of xs and ys
IsLongestCommonPrefix(n, xs, ys) ==
    /\ n \in 0..Min(Len(xs), Len(ys))
    /\ \A i \in 1..n : xs[i] = ys[i]
    /\ n = Min(Len(xs), Len(ys)) \/ xs[n + 1] # ys[n + 1]

\* C10: common_prefix returns exactly the length of the longest common
\* prefix of its arguments, so a prefix_len never exceeds the key's length.
C10_CommonPrefixExact ==
    cp_out # -1 =>
        /\ IsLongestCommonPrefix(cp_out, CpXs, CpYs)
        /\ cp_out <= Len(CpYs)

\* C10 witness: inputs of unequal length, both longer than a chunk, whose
\* first mismatch lies inside their second full chunk.
C10_Witness ==
    /\ cp_out # -1
    /\ cp_in.lx # cp_in.ly
    /\ cp_out > CHUNK_N
    /\ cp_out % CHUNK_N # 0
    /\ cp_out + 1 < 2 * CHUNK_N
    /\ Min(cp_in.lx, cp_in.ly) >= 2 * CHUNK_N

(***************************************************************************)
(* Properties of the path codec.                                           *)
(***************************************************************************)
\* the first position at which two segment sequences differ, 0 when one is
\* a prefix of the other
FirstDiff(p, q) ==
    LET D == { i \in 1..Min(Len(p), Len(q)) : p[i] # q[i] }
    IN  IF D = {} THEN 0 ELSE CHOOSE i \in D : \A j \in D : i <= j

\* sibling order: keys by their UTF-8 bytes, indices numerically, a key
\* before any index
SegLess(s, t) ==
    CASE s.t = "Key" /\ t.t = "Key" -> SeqLess(s.s, t.s)
      [] s.t = "Index" /\ t.t = "Index" -> SeqLess(s.n, t.n)
      [] OTHER -> s.t = "Key" /\ t.t = "Index"

\* document traversal order: a parent before its descendants, then sibling
\* order at the first differing position
TraversalLess(p, q) ==
    IF FirstDiff(p, q) = 0 THEN Len(p) < Len(q)
    ELSE SegLess(p[FirstDiff(p, q)], q[FirstDiff(p, q)])

\* traversal order says which of p, q comes first: they do not part at a
\* continuation marker
Ordered(p, q) ==
    FirstDiff(p, q) # 0 =>
        p[FirstDiff(p, q)].t # "Cont" /\ q[FirstDiff(p, q)].t # "Cont"

\* C2: Order preservation. For two distinct paths the encoded bytes of p are
\* byte-lexicographically less than those of q exactly when p precedes q in
\* document traversal order.
C2_OrderPreservation ==
    (pa # pb /\ Ordered(pa, pb)) =>
        (SeqLess(pa_buf, pb_buf) <=> TraversalLess(pa, pb))

\* the items a round trip must yield: every pushed segment, each as Ok
OkItems(segs) == [i \in 1..Len(segs) |-> Item("Ok", segs[i])]

\* C3: Path round-trip. Iterating the bytes produced by pushing the segments
\* of p yields exactly the segments of p, in order, each as Ok, and then
\* ends.
C3_PathRoundTrip ==
    ~NotIterating =>
        /\ IsPrefixOf(it_items, OkItems(pa))
        /\ IterDone => it_items = OkItems(pa)

\* iter.next() has just yielded an item for the tag at it_pos
Yielded == it_pos >= 0 /\ Len(it_items') = Len(it_items) + 1

\* C24: an index segment with payload length L yields EOF if and only if
\* fewer than L bytes remain after its tag; when its L payload bytes end
\* exactly at the end of the buffer it yields Ok(Index(n)). The index tags
\* are those the iterator hands to consume_index with the payload length
\* push_index writes (1, 4, 8; the tag 2 goes to the arm of TAG_CHUNK).
C24_IndexEof ==
    [][(Yielded /\ pa_buf[it_pos + 1] \in {1, 4, 8}) =>
          LET L == pa_buf[it_pos + 1]
              remain == Len(pa_buf) - (it_pos + 1)
              item == it_items'[Len(it_items')]
          IN  /\ item.res = "Eof" <=> remain < L
              /\ remain = L =>
                     item = Item("Ok", Index(U64FromPayload(
                                SubSeq(pa_buf, it_pos + 2, it_pos + 1 + L))))
      ]_vars

\* C25: every byte in tag position that is none of the defined tags (the
\* key tag 0, an index tag of payload length 1, 2, 4 or 8, the continuation
\* tag) yields UNKNOWN_TAG; a tag of 3, 5, 6 or 7 is never decoded as an
\* index.
C25_UnknownTag ==
    [][(Yielded /\ pa_buf[it_pos + 1] \notin {TAG_KEY, 1, 2, 4, 8, TAG_CONT}) =>
          it_items'[Len(it_items')].res = "UnknownTag"]_vars

\* a tag above MAX_INDEX_BYTES other than the continuation tag yields
\* UNKNOWN_TAG
UnknownTagAboveEight ==
    [][(Yielded /\ pa_buf[it_pos + 1] > MAX_INDEX_BYTES
               /\ pa_buf[it_pos + 1] # TAG_CONT) =>
          it_items'[Len(it_items')].res = "UnknownTag"]_vars

\* C12: push_key rejects every key that contains a byte <= 0x0F and appends
\* nothing for it: no key segment that was pushed with success, and no key
\* payload of the buffer, holds such a byte.
C12_InvalidKeyRejected ==
    \A i \in 1..Len(pa) :
        pa[i].t = "Key" => \A j \in 1..Len(pa[i].s) : pa[i].s[j] > 15

\* C13: after any sequence of pushes the encoded path is at most 32 KiB
\* long; a push that would exceed it fails with PATH_TOO_LONG.
C13_PathTooLong == Len(pa_buf) <= PATH_LIMIT

(***************************************************************************)
(* Properties of flatten and merge.                                        *)
(***************************************************************************)
RECURSIVE JsonEq(_, _)
\* equality of two documents; floats compare as f64 (0.0 == -0.0)
JsonEq(x, y) ==
    /\ x.t = y.t
    /\ CASE x.t = "Array" ->
               /\ Len(x.v) = Len(y.v)
               /\ \A i \in 1..Len(x.v) : JsonEq(x.v[i], y.v[i])
         [] x.t = "Object" ->
               /\ Len(x.v) = Len(y.v)
               /\ \A i \in 1..Len(x.v) :
                      /\ x.v[i][1] = y.v[i][1]
                      /\ JsonEq(x.v[i][2], y.v[i][2])
         [] x.t = "Float" ->
               \/ x.v = y.v
               \/ /\ Suffix(x.v, 1) = Fill(7, 0) /\ x.v[1] % 128 = 0
                  /\ Suffix(y.v, 1) = Fill(7, 0) /\ y.v[1] % 128 = 0
         [] OTHER -> x.v = y.v

RECURSIVE NoNullShortStrings(_, _)
\* the document has no null and no string longer than chunk_size
NoNullShortStrings(x, chunk_size) ==
    CASE x.t = "Null" -> FALSE
      [] x.t = "String" -> Len(x.v) <= chunk_size
      [] x.t = "Array" ->
            \A i \in 1..Len(x.v) : NoNullShortStrings(x.v[i], chunk_size)
      [] x.t = "Object" ->
            \A i \in 1..Len(x.v) : NoNullShortStrings(x.v[i][2], chunk_size)
      [] OTHER -> TRUE

\* C6: flatten-merge round trip. For a document with no null and no string
\* longer than chunk_size, flatten returns, and merging the entries it
\* returned, in order, gives a document equal to the one flattened.
C6_FlattenMergeRoundTrip ==
    NoNullShortStrings(j_doc, j_chunk_size) =>
        /\ j_phase = "flat" => j_flat.status = "ok"
        /\ j_phase = "merged" => JsonEq(j_acc, j_doc)

RECURSIVE LongStrings(_, _, _)
\* the strings of the document longer than chunk_size, each with the
\* segments of the path it is at
LongStrings(x, segs, chunk_size) ==
    CASE x.t = "String" ->
            IF Len(x.v) > chunk_size THEN {<<segs, x.v>>} ELSE {}
      [] x.t = "Array" ->
            UNION {LongStrings(x.v[i], Append(segs, Index(U64(i - 1))),
                               chunk_size) : i \in 1..Len(x.v)}
      [] x.t = "Object" ->
            UNION {LongStrings(x.v[i][2], Append(segs, Key(x.v[i][1])),
                               chunk_size) : i \in 1..Len(x.v)}
      [] OTHER -> {}

RECURSIVE IsStringAt(_, _, _)
\* the document holds the string bytes at the path of these segments
IsStringAt(x, segs, bytes) ==
    IF segs = <<>> THEN x.t = "String" /\ x.v = bytes
    ELSE LET seg == Head(segs)
         IN  IF seg.t = "Key"
             THEN /\ x.t = "Object"
                  /\ ObjHas(x.v, seg.s)
                  /\ IsStringAt(ObjGet(x.v, seg.s), Tail(segs), bytes)
             ELSE /\ x.t = "Array"
                  /\ U64ToNat(seg.n) < Len(x.v)
                  /\ IsStringAt(x.v[U64ToNat(seg.n) + 1], Tail(segs), bytes)

\* C7: chunk reassembly. Every string longer than chunk_size that the
\* flattened document holds is, once the entries are merged in order, a
\* string equal to the original at the same path of the merged document.
C7_ChunkReassembly ==
    j_phase = "merged" =>
        \A e \in LongStrings(j_doc, <<>>, j_chunk_size) :
            IsStringAt(j_acc, e[1], e[2])

RECURSIVE Scalars(_, _)
\* the leaves of the document that are no array and no object, each with
\* the segments of the path it is at
Scalars(x, segs) ==
    CASE x.t = "Array" ->
            UNION {Scalars(x.v[i], Append(segs, Index(U64(i - 1)))) :
                       i \in 1..Len(x.v)}
      [] x.t = "Object" ->
            UNION {Scalars(x.v[i][2], Append(segs, Key(x.v[i][1]))) :
                       i \in 1..Len(x.v)}
      [] OTHER -> {<<segs, x>>}

\* the leaves of the flattened document whose entry the filter kept
KeptLeaves ==
    {l \in Scalars(j_doc, <<>>) :
        \E k \in 1..Len(j_kept) : j_kept[k].path = from_iter(l[1])}

\* a kept leaf sits at or below the path of these segments
HasKept(segs) == \E l \in KeptLeaves : IsPrefixOf(segs, l[1])

RECURSIVE Pruned(_, _)
\* the part of the document on the paths of the kept leaves: an array runs
\* up to its last slot with a kept leaf, the slots without one hold null
Pruned(x, segs) ==
    CASE x.t = "Array" ->
            LET at(i) == Append(segs, Index(U64(i - 1)))
                used == {i \in 1..Len(x.v) : HasKept(at(i))}
                n == IF used = {} THEN 0
                     ELSE CHOOSE i \in used : \A j \in used : j <= i
            IN  JArr([i \in 1..n |-> IF i \in used THEN Pruned(x.v[i], at(i))
                                                   ELSE JNull])
      [] x.t = "Object" ->
            LET Used(pair) == HasKept(Append(segs, Key(pair[1])))
                pairs == SelectSeq(x.v, Used)
            IN  JObj([i \in 1..Len(pairs) |->
                         <<pairs[i][1],
                           Pruned(pairs[i][2],
                                  Append(segs, Key(pairs[i][1])))>>])
      [] OTHER -> x

\* C19: for a document with no string longer than chunk_size and any
\* order-preserving subsequence of the entries of its flattening, merge
\* completes and gives the document with every kept leaf at its original
\* path, the array slots left unfilled holding null; a first Index(i) with
\* i > 0 makes an array of length i + 1 padded with nulls.
C19_FilteredMerge ==
    (j_phase = "merged" /\ LongStrings(j_doc, <<>>, j_chunk_size) = {}) =>
        JsonEq(j_acc, IF KeptLeaves = {} THEN JNull ELSE Pruned(j_doc, <<>>))

\* the merge of a subsequence completes
FilteredMergeCompletes == j_phase = "merged" => j_acc # JPanic

\* (n << 1) ^ (n >> 63), the shift right being arithmetic
ZigZag(n) == IF IsNeg(n) THEN Not64(Shl1(n)) ELSE Shl1(n)

\* the tag INTEGER | L and the L low bytes of the zig-zag form, big-endian
ZigZagBytes(n) ==
    LET L == size_hint(ZigZag(n))
    IN  <<TAG_INTEGER + L>> \o Suffix(ZigZag(n), 8 - L)

\* C20: integer round trip. For every i64 n, flatten of n returns the one
\* entry whose value is the tag INTEGER | L followed by the L big-endian
\* bytes of (n << 1) XOR (n >> 63), and merge decodes it back to n.
C20_IntegerRoundTrip ==
    j_doc.t = "Int" =>
        /\ j_phase = "flat" =>
               /\ j_flat.status = "ok"
               /\ j_flat.entries = <<Entry(<<>>, ZigZagBytes(j_doc.v))>>
        /\ j_phase = "merged" => j_acc = j_doc

\* an integer from 0 to 127 comes back from flatten and merge
SmallIntegerRoundTrip ==
    (j_doc.t = "Int" /\ j_phase = "merged"
        /\ Prefix(j_doc.v, 7) = Fill(7, 0) /\ j_doc.v[8] < 128) =>
        j_acc = j_doc

\* C21: float round trip. flatten of a float returns the one entry whose
\* value is the tag FLOAT followed by the 8 bytes of the float in
\* little-endian order, and merge restores the float bit for bit.
C21_FloatRoundTrip ==
    j_doc.t = "Float" =>
        /\ j_phase = "flat" =>
               /\ j_flat.status = "ok"
               /\ j_flat.entries
                      = <<Entry(<<>>, <<TAG_FLOAT>> \o Reverse(j_doc.v))>>
        /\ j_phase = "merged" => j_acc = j_doc

\* flatten alone writes a float as C21 says
FloatWrittenLittleEndian ==
    (j_doc.t = "Float" /\ j_phase = "flat") =>
        /\ j_flat.status = "ok"
        /\ j_flat.entries = <<Entry(<<>>, <<TAG_FLOAT>> \o Reverse(j_doc.v))>>

\* what the slot of the accumulator holds
SlotOf(doc) ==
    IF doc.t = "Object"
    THEN IF ObjHas(doc.v, <<97>>) THEN ObjGet(doc.v, <<97>>) ELSE JNull
    ELSE doc

\* C22: a continuation entry (path ending Index(o), Cont) merged on a slot
\* that holds a string of byte length len appends its bytes when o = len,
\* replaces the tail of the string from offset o when o < len, and is an
\* error when o > len; a chunk at offset 0 makes the slot a string holding
\* that chunk.
C22_ContinuationMerge ==
    j_phase = "continued" =>
        \A o \in 0..MaxOffset :
            j_kept[1].path = ContPath(j_doc, o) =>
                LET before == SlotOf(j_doc)
                    chunk == j_kept[1].value
                IN  /\ (before.t = "String" /\ o <= Len(before.v)) =>
                           /\ j_acc # JPanic
                           /\ SlotOf(j_acc) = JStr(Prefix(before.v, o) \o chunk)
                    /\ (before.t = "String" /\ o > Len(before.v)) =>
                           j_acc = JPanic
                    /\ (before.t # "String" /\ o = 0) =>
                           /\ j_acc # JPanic
                           /\ SlotOf(j_acc) = JStr(chunk)

\* the path of the chunk at offset o of the string at the path P
ChunkPath(P, o) == push_continued(push_index(P, U64(o)))

\* the entries flatten returned for the chunks of the string at the path P
ChunksOf(P, N) ==
    SelectSeq(j_flat.entries,
              LAMBDA x : \E o \in 0..N : x.path = ChunkPath(P, o))

\* the chunks of the string bytes at the path P are laid out as C23 says
ChunkLayout(P, bytes) ==
    LET N == Len(bytes)
        ch == ChunksOf(P, N)
        n == Len(ch)
        Off[k \in 1..(n + 1)] ==
            IF k = 1 THEN 0 ELSE Off[k - 1] + Len(ch[k - 1].value)
    IN  /\ n >= 1
        /\ Off[n + 1] = N
        /\ \A k \in 1..n :
               /\ ch[k].path = ChunkPath(P, Off[k])
               /\ Len(ch[k].value)
                      = Min(j_chunk_size - Len(ch[k].path) - 6, N - Off[k])
               /\ ch[k].value
                      = SubSeq(bytes, Off[k] + 1, Off[k] + Len(ch[k].value))

\* C23: for a string of N > chunk_size bytes at path P, flatten returns
\* entries with the paths P ++ Index(o_k) ++ Cont and raw bytes as values,
\* o_0 = 0, o_(k+1) = o_k + |chunk_k|, every chunk of the size
\* min(chunk_size - encoded_path_len - 6, N - o_k), the chunks in order
\* making up the bytes of the string.
C23_ChunkLayout ==
    j_phase = "flat" =>
        \A e \in LongStrings(j_doc, <<>>, j_chunk_size) :
            /\ j_flat.status = "ok"
            /\ ChunkLayout(from_iter(e[1]), e[2])

\* the layout holds when chunk_size exceeds every chunk path by more than 6
ChunkLayoutWithRoom ==
    (j_phase = "flat" /\ j_chunk_size >= 16) =>
        \A e \in LongStrings(j_doc, <<>>, j_chunk_size) :
            /\ j_flat.status = "ok"
            /\ ChunkLayout(from_iter(e[1]), e[2])

\* C26: flatten terminates for every document and every chunk_size: each
\* turn of the chunk loop of a string advances the offset by at least one
\* byte, also when chunk_size <= encoded path length + 6.
C26_FlattenTerminates ==
    j_phase = "flat" => j_flat.status \in {"ok", "panic"}

RECURSIVE ValidKeys(_)
\* no key of the document holds a byte <= 0x0F
ValidKeys(x) ==
    CASE x.t = "Array" -> \A i \in 1..Len(x.v) : ValidKeys(x.v[i])
      [] x.t = "Object" ->
            \A i \in 1..Len(x.v) :
                /\ \A j \in 1..Len(x.v[i][1]) : x.v[i][1][j] > 15
                /\ ValidKeys(x.v[i][2])
      [] OTHER -> TRUE

\* the paths of the entries flatten returned are strictly increasing
PathsIncrease ==
    \A i \in 1..(Len(j_flat.entries) - 1) :
        SeqLess(j_flat.entries[i].path, j_flat.entries[i + 1].path)

\* C15: for every document whose objects iterate their keys in sorted
\* order, the encoded paths of the output of flatten are strictly
\* increasing in byte-lexicographic order.
C15_FlattenOrder == j_flat.status = "ok" => PathsIncrease

\* the output of flatten is in order for every document whose keys hold no
\* byte <= 0x0F
FlattenOrderValidKeys ==
    (j_flat.status = "ok" /\ ValidKeys(j_doc)) => PathsIncrease

(***************************************************************************)
(* Properties of the matcher.                                              *)
(***************************************************************************)
\* C8: matcher prefix-closure. If is_match(q, p) is true then
\* is_match(q, p ++ s) is true for every sequence s of further segments.
C8_MatcherPrefixClosure ==
    (m_out.called /\ m_out.p) => m_out.ps

\* the query is Root followed by Member and Index tokens only
RootMemberIndex(q) ==
    /\ q # <<>>
    /\ q[1].t = "Root"
    /\ \A k \in 2..Len(q) : q[k].t \in {"Member", "Index"}

\* for each k the k-th segment of the path exists and is the Key, or the
\* Index, that the k-th token after Root names
SegmentsAsNamed(q, path) ==
    \A k \in 1..(Len(q) - 1) :
        /\ k <= Len(path)
        /\ path[k] = IF q[k + 1].t = "Member" THEN Key(q[k + 1].key)
                                               ELSE Index(q[k + 1].a)

\* C16: for a query made of Root followed by Member and Index tokens,
\* is_match(path) is true if and only if, for each k, the k-th path segment
\* exists and equals Key(name) for a Member(name) token, Index(i) for an
\* Index(i) token.
C16_MemberIndexMatch ==
    (m_out.called /\ RootMemberIndex(m_query)) =>
        (m_out.p <=> SegmentsAsNamed(m_query, m_path))

\* match_path_inner, on the segments themselves, matches Member and Index
\* tokens as C16 says
MatchInnerMemberIndex ==
    (m_out.called /\ RootMemberIndex(m_query)) =>
        (m_out.ip <=> SegmentsAsNamed(m_query, m_path))

\* C17: RecursiveDescend at cursor c succeeds if and only if there is a
\* position i, c <= i < |path|, from which the remaining tokens match the
\* path; with no such position (c at or past the end included) the match
\* fails.
C17_RecursiveDescend ==
    m_out.called =>
        \A t \in 0..(Len(m_query) - 1) : \A c \in 0..Len(m_path) :
            m_query[t + 1].t = "RecursiveDescend" =>
                (match_path_inner(m_query, t, m_path, c)
                    <=> \E i \in c..(Len(m_path) - 1) :
                            match_path_inner(m_query, t + 1, m_path, i))

\* the tokens before position t (0-based) leave the cursor at the start
LeadsToStart(q, t) == \A k \in 1..t : q[k].t \in {"Root", "Current"}

\* the segment at cursor c exists and is an Index within [a, b)
InSlice(tok, path, c) ==
    /\ c < Len(path)
    /\ path[c + 1].t = "Index"
    /\ ~SeqLess(path[c + 1].n, tok.a)
    /\ SeqLess(path[c + 1].n, tok.b)

\* C18: Slice(a, b, s) consumes exactly one segment and succeeds if and only
\* if that segment is an Index(i) with a <= i < b; it fails on a Key
\* segment, on a missing segment and on an index out of the range.
C18_SliceMatch ==
    m_out.called =>
        \A t \in 0..(Len(m_query) - 1) :
            (m_query[t + 1].t = "Slice" /\ LeadsToStart(m_query, t)) =>
                (m_out.p <=> (/\ InSlice(m_query[t + 1], m_path, 0)
                              /\ match_path_inner(m_query, t + 1, m_path, 1)))

\* match_path_inner, on the segments themselves, matches a Slice token as
\* C18 says, at every cursor
MatchInnerSlice ==
    m_out.called =>
        \A t \in 0..(Len(m_query) - 1) : \A c \in 0..Len(m_path) :
            m_query[t + 1].t = "Slice" =>
                (match_path_inner(m_query, t, m_path, c)
                    <=> (/\ InSlice(m_query[t + 1], m_path, c)
                         /\ match_path_inner(m_query, t + 1, m_path, c + 1)))

\* the query walks the path once from its start: Root only in front, no
\* RecursiveDescend
OnePass(q) ==
    \A k \in 1..Len(q) :
        /\ q[k].t # "RecursiveDescend"
        /\ q[k].t = "Root" => k = 1

\* the tokens of the query that consume a segment
Consuming(q) == {k \in 1..Len(q) : q[k].t \notin {"Root", "Current"}}

\* C28: is_match returns true only if the path has a segment for every
\* segment-consuming token on the matching branch; a Wildcard reached with
\* the cursor at or past the last segment does not match.
C28_WildcardNeedsSegment ==
    (m_out.called /\ OnePass(m_query) /\ m_out.p) =>
        Cardinality(Consuming(m_query)) <= Len(m_path)

\* without Wildcard, a query that walks the path once matches only a path
\* with a segment for each consuming token
SegmentPerTokenNoWildcard ==
    (m_out.called /\ OnePass(m_query) /\ m_out.p
        /\ \A k \in 1..Len(m_query) : m_query[k].t # "Wildcard") =>
        Cardinality(Consuming(m_query)) <= Len(m_path)

\* match_path_inner, on the segments themselves, is closed under extension
\* of the path
MatchInnerPrefixClosed ==
    (m_out.called /\ m_out.ip) => m_out.ips

(***************************************************************************)
(* Specifications.                                                         *)
(***************************************************************************)
\* the stream codec
Init == StreamInit /\ CpIdle /\ PathInit /\ JsonIdle /\ MatchIdle

Next == WriteNext \/ WriteExtension \/ ReadNext

Spec == Init /\ [][Next]_vars

\* common_prefix alone, on drawn inputs
InitPrefix == CpInit /\ StreamInit /\ PathInit /\ JsonIdle /\ MatchIdle

NextPrefix == CommonPrefixCall

SpecPrefix == InitPrefix /\ [][NextPrefix]_vars

\* a path built and iterated
InitPath == PathInit /\ StreamInit /\ CpIdle /\ JsonIdle /\ MatchIdle

NextPath == PushA \/ IterNew \/ IterNext

SpecPath == InitPath /\ [][NextPath]_vars

\* the iterator on the bytes of any slice
NextRaw == FromSlice \/ IterNew \/ IterNext

SpecRaw == InitPath /\ [][NextRaw]_vars

\* two paths built, for the order of their bytes
NextOrder == PushOrderA \/ PushOrderB

SpecOrder == InitPath /\ [][NextOrder]_vars

\* flatten and merge, on drawn documents
InitJson == JsonInit /\ StreamInit /\ CpIdle /\ PathInit /\ MatchIdle

NextJson == FlattenCall \/ MergeCall

SpecJson == InitJson /\ [][NextJson]_vars

\* a continuation entry merged into an accumulator
InitCont == ContInit /\ StreamInit /\ CpIdle /\ PathInit /\ MatchIdle

NextCont == MergeContinuation

SpecCont == InitCont /\ [][NextCont]_vars

\* flatten, then merge of the entries a filter keeps
NextFilter == FlattenCall \/ MergeFiltered

SpecFilter == InitJson /\ [][NextFilter]_vars

\* is_match, on drawn queries and paths
InitMatch == MatchInit /\ StreamInit /\ CpIdle /\ PathInit /\ JsonIdle

NextMatch == IsMatchCall

SpecMatch == InitMatch /\ [][NextMatch]_vars

\* the stream codec over a sink that may write the last record in part
NextTrunc == WriteNext \/ WritePartial \/ ReadNext

SpecTrunc == Init /\ [][NextTrunc]_vars

\* a path built with keys of any content and length
NextPush == PushA \/ PushRawKey

SpecPush == InitPath /\ [][NextPush]_vars

\* the decoder on bytes that no encoder wrote
NextFeed == WriteRaw \/ ReadNext

SpecFeed == Init /\ [][NextFeed]_vars

\* the stream codec with keys of any length
NextLong == WriteNext \/ WriteLong \/ ReadNext

SpecLong == Init /\ [][NextLong]_vars

====
